---- MODULE Spec2Model ----
(***************************************************************************)
(* Model of src/utility/errormessage.cpp: the error formatter of the       *)
(* nrfjprog binding.  Text is a sequence of tokens: a literal fragment of  *)
(* the source, a table name, or a single character (a digit, "-", "\n").   *)
(* A JavaScript value is a record tagged with its type.                    *)
(***************************************************************************)
EXTENDS Integers, Sequences, FiniteSets, TLC

VARIABLES nrfjprog_js_err_map, nrfjprogdll_err_t_map, call, result, mark

vars == <<nrfjprog_js_err_map, nrfjprogdll_err_t_map, call, result, mark>>

(* ---------------- bounds of the explored inputs ---------------- *)

\* binding codes explored: -NegBindingCodes .. MaxBindingCode
MaxBindingCode == 16
NegBindingCodes == 1
\* vendor codes explored: -MaxVendorDepth .. MaxVendorCode, and the far keys
MaxVendorDepth == 2
MaxVendorCode == 1
\* argument indexes explored: -NegArgumentNumbers .. MaxArgumentNumber
MaxArgumentNumber == 8
NegArgumentNumbers == 2
\* codes explored by the calls whose earlier results are remembered: 0 .. MaxMarkedCode
MaxMarkedCode == 1

\* the width of int; the model checker's integers are 32 bits wide too, so
\* 2 ^ IntWidth is never computed: an int is split at bit IntWidth - 4
IntWidth == 32
TopNibbleUnit == 2 ^ (IntWidth - 4)
MaxInt == 7 * TopNibbleUnit + (TopNibbleUnit - 1)

(* ---------------- the enumerations and the lookup tables ---------------- *)

JsSuccess == 0
SUCCESS == 0

\* names of errorcodes, in the order of the table's initialiser
JsErrNames ==
  << "Success", "CouldNotFindJlinkDLL", "CouldNotFindJprogDLL", "CouldNotLoadDLL",
     "CouldNotOpenDLL", "CouldNotOpenDevice", "CouldNotResetDevice",
     "CouldNotCloseDevice", "CouldNotConnectToDevice", "CouldNotCallFunction",
     "CouldNotErase", "CouldNotProgram", "CouldNotRead", "CouldNotOpenHexFile",
     "WrongMagicNumber" >>

\* errorcodes: an enumeration starting at JsSuccess, one value per name
JsErrCodes == JsSuccess .. (JsSuccess + Len(JsErrNames) - 1)

InitJsErrMap == [c \in JsErrCodes |-> JsErrNames[c - JsSuccess + 1]]

\* NAME_MAP_ENTRY(X) is the pair { X, "X" }; the values are nrfjprogdll_err_t's
DllErrEntries ==
  { <<SUCCESS, "SUCCESS">>,
    <<-1, "OUT_OF_MEMORY">>,
    <<-2, "INVALID_OPERATION">>,
    <<-3, "INVALID_PARAMETER">>,
    <<-4, "INVALID_DEVICE_FOR_OPERATION">>,
    <<-5, "WRONG_FAMILY_FOR_DEVICE">>,
    <<-10, "EMULATOR_NOT_CONNECTED">>,
    <<-11, "CANNOT_CONNECT">>,
    <<-12, "LOW_VOLTAGE">>,
    <<-13, "NO_EMULATOR_CONNECTED">>,
    <<-14, "FAMILY_UNKNOWN">>,
    <<-20, "NVMC_ERROR">>,
    <<-21, "RECOVER_FAILED">>,
    <<-22, "RAM_IS_OFF_ERROR">>,
    <<-30, "QspiIniNotFoundError">>,
    <<-31, "QspiIniCannotBeOpenedError">>,
    <<-32, "QspiSyntaxError">>,
    <<-33, "QspiIniParsingError">>,
    <<-90, "NOT_AVAILABLE_BECAUSE_PROTECTION">>,
    <<-91, "NOT_AVAILABLE_BECAUSE_MPU_CONFIG">>,
    <<-100, "JLINKARM_DLL_NOT_FOUND">>,
    <<-101, "JLINKARM_DLL_COULD_NOT_BE_OPENED">>,
    <<-102, "JLINKARM_DLL_ERROR">>,
    <<-103, "JLINKARM_DLL_TOO_OLD">>,
    <<-150, "NRFJPROG_SUB_DLL_NOT_FOUND">>,
    <<-151, "NRFJPROG_SUB_DLL_COULD_NOT_BE_OPENED">>,
    <<-152, "NRFJPROG_SUB_DLL_COULD_NOT_LOAD_FUNCTIONS">>,
    <<-255, "NOT_IMPLEMENTED_ERROR">> }

DllErrCodes == { e[1] : e \in DllErrEntries }

InitDllErrMap ==
  [c \in DllErrCodes |-> (CHOOSE e \in DllErrEntries : e[1] = c)[2]]

(* ---------------- the inputs ---------------- *)

BindingCodes == (0 - NegBindingCodes) .. MaxBindingCode

VendorCodes == ((0 - MaxVendorDepth) .. MaxVendorCode) \cup {-255, -256}

\* operation descriptions, log texts, type descriptions, property names
Descriptions == { <<>>, <<"opening device">>, <<"r", "e", "a", "d", "1", "0">> }

LogTexts == { <<>>, <<"l", "o", "g", "\n", "2">> }

TypeTexts == { <<>>, <<"function">>, <<"n", "u", "m", "b", "e", "r">> }

\* the inputs of the calls whose earlier results are remembered
MarkedBindingCodes == (JsSuccess .. MaxMarkedCode) \cup {MaxBindingCode}

MarkedVendorCodes == ((0 - MaxMarkedCode) .. 0) \cup {-256}

MarkedTexts == { <<"opening device">> }

ArgumentNumbers == (0 - NegArgumentNumbers) .. MaxArgumentNumber

(* ---------------- std::ostringstream ---------------- *)

Digits ==
  << "0", "1", "2", "3", "4", "5", "6", "7", "8", "9", "a", "b", "c", "d", "e", "f" >>

RECURSIVE NatToDigits(_, _)
\* the digits of the natural number n in the given base, most significant first
NatToDigits(n, base) ==
  IF n < base THEN << Digits[n + 1] >>
  ELSE Append(NatToDigits(n \div base, base), Digits[(n % base) + 1])

RECURSIVE PaddedDigits(_, _, _)
\* the last `width` digits of n in the given base, zero-padded
PaddedDigits(n, base, width) ==
  IF width = 0 THEN << >>
  ELSE Append(PaddedDigits(n \div base, base, width - 1), Digits[(n % base) + 1])

\* the hexadecimal digits of n taken as unsigned, i.e. of n modulo 2 ^ IntWidth:
\* for n < 0 that is 2 ^ IntWidth + n, whose top nibble is 8 + (m \div 2 ^ 28)
\* for m = n + 2 ^ 31
UnsignedHex(n) ==
  IF n >= 0 THEN NatToDigits(n, 16)
  ELSE LET m == (n + MaxInt) + 1
       IN  << Digits[8 + (m \div TopNibbleUnit) + 1] >>
             \o PaddedDigits(m % TopNibbleUnit, 16, (IntWidth \div 4) - 1)

\* num_put for an int: decimal is signed, hexadecimal prints the value as unsigned
IntToText(n, base) ==
  IF base = 16 THEN UnsignedHex(n)
  ELSE IF n < 0 THEN << "-" >> \o NatToDigits(0 - n, 10)
  ELSE NatToDigits(n, 10)

\* a new stream: empty buffer, decimal base
NewStream == [buf |-> <<>>, base |-> 10]

\* stream << text
PutText(s, text) == [s EXCEPT !.buf = @ \o text]

\* stream << std::hex
PutHex(s) == [s EXCEPT !.base = 16]

\* a variant of PutInt after which the stream is decimal again, as if std::hex
\* applied to the next insertion only
PutInt_ResetsBase(s, n) == [buf |-> s.buf \o IntToText(n, s.base), base |-> 10]

\* stream << int
PutInt(s, n) == [s EXCEPT !.buf = @ \o IntToText(n, s.base)]

\* stream << std::endl
PutEndl(s) == [s EXCEPT !.buf = @ \o << "\n" >>]

(* ---------------- Convert, Nan, Utility ---------------- *)

\* Convert::valueToString: the table's name of the value, or the default name
valueToString(value, name_map) ==
  IF value \in DOMAIN name_map THEN name_map[value] ELSE "Unknown"

toJsString(text) == [type |-> "string", value |-> text]

toJsNumber(n) == [type |-> "number", value |-> n]

Undefined == [type |-> "undefined"]

\* Nan::Error(message): an Error object whose message property is the string
NanError(message) == [type |-> "object", props |-> [k \in {"message"} |-> message]]

\* Utility::Set(object, name, value)
Set(object, name, value) ==
  [object EXCEPT !.props =
     [k \in (DOMAIN object.props) \cup {name} |->
        IF k = name THEN value ELSE object.props[k]]]

(* ---------------- ErrorMessage::getErrorMessage ---------------- *)

\* a variant of ErrorcodeSection that never inserts std::hex
ErrorcodeSection_Decimal(stream, errorCode, customMessage) ==
  LET s1 == PutText(stream, << "Error occured when " >>)
      s2 == PutText(s1, customMessage)
      s3 == PutText(s2, << ". " >>)
      s4 == PutText(s3, << "Errorcode: " >>)
      s5 == PutText(s4, << valueToString(errorCode, nrfjprog_js_err_map) >>)
      s6 == PutText(s5, << " (0x" >>)
      s8 == PutInt(s6, errorCode)
      s9 == PutText(s8, << ")" >>)
  IN  PutEndl(s9)

\* "Error occured when <customMessage>. Errorcode: <name> (0x<hex>)" and a newline;
\* std::hex stays set on the stream
ErrorcodeSection(stream, errorCode, customMessage) ==
  LET s1 == PutText(stream, << "Error occured when " >>)
      s2 == PutText(s1, customMessage)
      s3 == PutText(s2, << ". " >>)
      s4 == PutText(s3, << "Errorcode: " >>)
      s5 == PutText(s4, << valueToString(errorCode, nrfjprog_js_err_map) >>)
      s6 == PutText(s5, << " (0x" >>)
      s7 == PutHex(s6)
      s8 == PutInt(s7, errorCode)
      s9 == PutText(s8, << ")" >>)
  IN  PutEndl(s9)

\* a variant of LowlevelSection that looks the vendor code up in the binding table
LowlevelSection_WrongTable(stream, lowlevelError) ==
  IF lowlevelError # SUCCESS
  THEN LET s1 == PutText(stream, << "Lowlevel error: " >>)
           s2 == PutText(s1, << valueToString(lowlevelError, nrfjprog_js_err_map) >>)
           s3 == PutText(s2, << " (" >>)
           s4 == PutInt(s3, lowlevelError)
           s5 == PutText(s4, << ")" >>)
       IN  PutEndl(s5)
  ELSE stream

\* "Lowlevel error: <name> (<number>)" and a newline, when the vendor code is not SUCCESS
LowlevelSection(stream, lowlevelError) ==
  IF lowlevelError # SUCCESS
  THEN LET s1 == PutText(stream, << "Lowlevel error: " >>)
           s2 == PutText(s1, << valueToString(lowlevelError, nrfjprogdll_err_t_map) >>)
           s3 == PutText(s2, << " (" >>)
           s4 == PutInt(s3, lowlevelError)
           s5 == PutText(s4, << ")" >>)
       IN  PutEndl(s5)
  ELSE stream

\* the log text and a newline, when the log text is not empty
LogSection(stream, logmessage) ==
  IF logmessage # <<>>
  THEN PutEndl(PutText(stream, logmessage))
  ELSE stream

\* a variant of ErrorString that appends the log text before the vendor section
ErrorString_LogBeforeLowlevel(errorCode, customMessage, logmessage, lowlevelError) ==
  LowlevelSection(
    LogSection(
      ErrorcodeSection(NewStream, errorCode, customMessage),
      logmessage),
    lowlevelError).buf

\* the text of errorStringStream after the three sections
ErrorString(errorCode, customMessage, logmessage, lowlevelError) ==
  LogSection(
    LowlevelSection(
      ErrorcodeSection(NewStream, errorCode, customMessage),
      lowlevelError),
    logmessage).buf

\* a variant of ErrorFields that sets the vendor fields and the output only
\* when there is a vendor error and a log text
ErrorFields_OnlyWhenPresent(error, text, errorCode, customMessage, logmessage, lowlevelError) ==
  LET o1 == Set(error, "errno", toJsNumber(errorCode))
      o2 == Set(o1, "errcode",
                toJsString(<< valueToString(errorCode, nrfjprog_js_err_map) >>))
      o3 == Set(o2, "erroperation", toJsString(customMessage))
      o4 == Set(o3, "errmsg", toJsString(text))
      o5 == IF lowlevelError # SUCCESS
            THEN Set(o4, "lowlevelErrorNo", toJsNumber(lowlevelError))
            ELSE o4
      o6 == IF lowlevelError # SUCCESS
            THEN Set(o5, "lowlevelError",
                     toJsString(<< valueToString(lowlevelError, nrfjprogdll_err_t_map) >>))
            ELSE o5
  IN  IF logmessage # <<>> THEN Set(o6, "output", toJsString(logmessage)) ELSE o6

\* the seven Utility::Set calls on the error object
ErrorFields(error, text, errorCode, customMessage, logmessage, lowlevelError) ==
  LET o1 == Set(error, "errno", toJsNumber(errorCode))
      o2 == Set(o1, "errcode",
                toJsString(<< valueToString(errorCode, nrfjprog_js_err_map) >>))
      o3 == Set(o2, "erroperation", toJsString(customMessage))
      o4 == Set(o3, "errmsg", toJsString(text))
      o5 == Set(o4, "lowlevelErrorNo", toJsNumber(lowlevelError))
      o6 == Set(o5, "lowlevelError",
                toJsString(<< valueToString(lowlevelError, nrfjprogdll_err_t_map) >>))
  IN  Set(o6, "output", toJsString(logmessage))

\* a variant of getErrorMessage that reports no error only when the vendor
\* code is SUCCESS as well
getErrorMessage_SuccessNeedsVendor(errorCode, customMessage, logmessage, lowlevelError) ==
  IF errorCode = JsSuccess /\ lowlevelError = SUCCESS
  THEN Undefined
  ELSE LET text == ErrorString(errorCode, customMessage, logmessage, lowlevelError)
       IN  ErrorFields(NanError(toJsString(text)), text,
                       errorCode, customMessage, logmessage, lowlevelError)

\* a variant of getErrorMessage that creates the error before the log text is
\* appended to the stream
getErrorMessage_ErrorBeforeLog(errorCode, customMessage, logmessage, lowlevelError) ==
  IF errorCode = JsSuccess
  THEN Undefined
  ELSE LET early == ErrorString(errorCode, customMessage, <<>>, lowlevelError)
           text == ErrorString(errorCode, customMessage, logmessage, lowlevelError)
       IN  ErrorFields(NanError(toJsString(early)), text,
                       errorCode, customMessage, logmessage, lowlevelError)

getErrorMessage(errorCode, customMessage, logmessage, lowlevelError) ==
  IF errorCode = JsSuccess
  THEN Undefined
  ELSE LET text == ErrorString(errorCode, customMessage, logmessage, lowlevelError)
       IN  ErrorFields(NanError(toJsString(text)), text,
                       errorCode, customMessage, logmessage, lowlevelError)

(* ---------------- ErrorMessage::getTypeErrorMessage ---------------- *)

\* a variant of OrdinalWord whose cases count from one
OrdinalWord_OneBased(argumentNumber) ==
  CASE argumentNumber = 1 -> "First"
    [] argumentNumber = 2 -> "Second"
    [] argumentNumber = 3 -> "Third"
    [] argumentNumber = 4 -> "Fourth"
    [] argumentNumber = 5 -> "Fifth"
    [] argumentNumber = 6 -> "Sixth"
    [] argumentNumber = 7 -> "Seventh"
    [] OTHER -> "Unknown"

\* the switch on argumentNumber
OrdinalWord(argumentNumber) ==
  CASE argumentNumber = 0 -> "First"
    [] argumentNumber = 1 -> "Second"
    [] argumentNumber = 2 -> "Third"
    [] argumentNumber = 3 -> "Fourth"
    [] argumentNumber = 4 -> "Fifth"
    [] argumentNumber = 5 -> "Sixth"
    [] argumentNumber = 6 -> "Seventh"
    [] OTHER -> "Unknown"

getTypeErrorMessage(argumentNumber, message) ==
  LET s1 == PutText(NewStream, << OrdinalWord(argumentNumber) >>)
      s2 == PutText(s1, << " argument must be a " >>)
      s3 == PutText(s2, message)
  IN  toJsString(s3.buf)

(* ---------------- ErrorMessage::getStructErrorMessage ---------------- *)

\* a variant of getStructErrorMessage with the two inputs exchanged
getStructErrorMessage_Exchanged(name, message) ==
  LET s1 == PutText(NewStream, << "Property: " >>)
      s2 == PutText(s1, message)
      s3 == PutText(s2, << " Message: " >>)
      s4 == PutText(s3, name)
  IN  toJsString(s4.buf)

getStructErrorMessage(name, message) ==
  LET s1 == PutText(NewStream, << "Property: " >>)
      s2 == PutText(s1, name)
      s3 == PutText(s2, << " Message: " >>)
      s4 == PutText(s3, message)
  IN  toJsString(s4.buf)

(* ---------------- the calls ---------------- *)

NoCall == [op |-> "none"]

NoResult == [type |-> "none"]

NoMark == [call |-> NoCall, result |-> NoResult]

Init ==
  /\ nrfjprog_js_err_map = InitJsErrMap
  /\ nrfjprogdll_err_t_map = InitDllErrMap
  /\ call = NoCall
  /\ result = NoResult
  /\ mark = NoMark

\* a key added to a table with an empty name, as std::map's operator[] adds it
WithKey(name_map, value) ==
  [k \in (DOMAIN name_map) \cup {value} |->
     IF k \in DOMAIN name_map THEN name_map[k] ELSE ""]

\* a variant of the call that looks the codes up with operator[], which adds
\* a missing key to the table
GetErrorMessageCall_InsertsKeys(errorCode, customMessage, logmessage, lowlevelError) ==
  /\ call' = [op |-> "getErrorMessage", errorCode |-> errorCode,
              customMessage |-> customMessage, logmessage |-> logmessage,
              lowlevelError |-> lowlevelError]
  /\ result' = getErrorMessage(errorCode, customMessage, logmessage, lowlevelError)
  /\ nrfjprog_js_err_map' =
       IF errorCode # JsSuccess THEN WithKey(nrfjprog_js_err_map, errorCode)
       ELSE nrfjprog_js_err_map
  /\ nrfjprogdll_err_t_map' =
       IF errorCode # JsSuccess THEN WithKey(nrfjprogdll_err_t_map, lowlevelError)
       ELSE nrfjprogdll_err_t_map

\* a call of getErrorMessage by the binding layer
GetErrorMessageCall(errorCode, customMessage, logmessage, lowlevelError) ==
  /\ call' = [op |-> "getErrorMessage", errorCode |-> errorCode,
              customMessage |-> customMessage, logmessage |-> logmessage,
              lowlevelError |-> lowlevelError]
  /\ result' = getErrorMessage(errorCode, customMessage, logmessage, lowlevelError)
  /\ UNCHANGED <<nrfjprog_js_err_map, nrfjprogdll_err_t_map>>

\* a call of getTypeErrorMessage
GetTypeErrorMessageCall(argumentNumber, message) ==
  /\ call' = [op |-> "getTypeErrorMessage", argumentNumber |-> argumentNumber,
              message |-> message]
  /\ result' = getTypeErrorMessage(argumentNumber, message)
  /\ UNCHANGED <<nrfjprog_js_err_map, nrfjprogdll_err_t_map>>

\* a call of getStructErrorMessage
GetStructErrorMessageCall(name, message) ==
  /\ call' = [op |-> "getStructErrorMessage", name |-> name, message |-> message]
  /\ result' = getStructErrorMessage(name, message)
  /\ UNCHANGED <<nrfjprog_js_err_map, nrfjprogdll_err_t_map>>

GetErrorMessage ==
  \E errorCode \in BindingCodes, customMessage \in Descriptions,
     logmessage \in LogTexts, lowlevelError \in VendorCodes :
       /\ GetErrorMessageCall(errorCode, customMessage, logmessage, lowlevelError)
       /\ UNCHANGED mark

GetTypeErrorMessage ==
  \E argumentNumber \in ArgumentNumbers, message \in TypeTexts :
       /\ GetTypeErrorMessageCall(argumentNumber, message)
       /\ UNCHANGED mark

GetStructErrorMessage ==
  \E name \in TypeTexts, message \in LogTexts :
       /\ GetStructErrorMessageCall(name, message)
       /\ UNCHANGED mark

Next == GetErrorMessage \/ GetTypeErrorMessage \/ GetStructErrorMessage

Spec == Init /\ [][Next]_vars

(* ---------------- calls after which an earlier call may be repeated ---------------- *)

\* the call just made is remembered, or the remembered call is kept
Remember ==
  \/ mark' = [call |-> call', result |-> result']
  \/ UNCHANGED mark

MarkedGetErrorMessage ==
  \E errorCode \in MarkedBindingCodes, customMessage \in MarkedTexts,
     logmessage \in LogTexts, lowlevelError \in MarkedVendorCodes :
       /\ GetErrorMessageCall(errorCode, customMessage, logmessage, lowlevelError)
       /\ Remember

MarkedGetTypeErrorMessage ==
  \E argumentNumber \in {0, MaxArgumentNumber}, message \in MarkedTexts :
       /\ GetTypeErrorMessageCall(argumentNumber, message)
       /\ Remember

MarkedGetStructErrorMessage ==
  \E name \in MarkedTexts, message \in LogTexts :
       /\ GetStructErrorMessageCall(name, message)
       /\ Remember

NextMarked ==
  MarkedGetErrorMessage \/ MarkedGetTypeErrorMessage \/ MarkedGetStructErrorMessage

SpecMarked == Init /\ [][NextMarked]_vars

(* ---------------- reading a result ---------------- *)

\* the last call was getErrorMessage with a binding code other than success
IsErrorCall == call.op = "getErrorMessage" /\ call.errorCode # JsSuccess

\* the message text of the returned error
MessageText == result.props["message"].value

\* part occurs in text as a run of consecutive tokens
Contains(text, part) ==
  \E i \in 0 .. (Len(text) - Len(part)) : SubSeq(text, i + 1, i + Len(part)) = part

\* the first position at or after start where text holds tok, 0 when there is none
IndexFrom(text, tok, start) ==
  IF \E i \in start .. Len(text) : text[i] = tok
  THEN CHOOSE i \in start .. Len(text) :
         text[i] = tok /\ \A j \in start .. (i - 1) : text[j] # tok
  ELSE 0

DigitValue(d) == (CHOOSE i \in 1 .. 16 : Digits[i] = d) - 1

IsHexDigits(ds) == Len(ds) > 0 /\ \A i \in 1 .. Len(ds) : \E k \in 1 .. 16 : Digits[k] = ds[i]

RECURSIVE HexValue(_)
\* the number a run of hexadecimal digits denotes
HexValue(ds) ==
  IF Len(ds) = 0 THEN 0
  ELSE 16 * HexValue(SubSeq(ds, 1, Len(ds) - 1)) + DigitValue(ds[Len(ds)])

\* the int whose bit pattern a run of at most IntWidth \div 4 hexadecimal digits
\* denotes: the denoted number, less 2 ^ IntWidth when the top bit is set
IntOfHex(ds) ==
  IF Len(ds) = IntWidth \div 4 /\ DigitValue(ds[1]) >= 8
  THEN (DigitValue(ds[1]) - 16) * TopNibbleUnit + HexValue(SubSeq(ds, 2, Len(ds)))
  ELSE HexValue(ds)

\* where the first line of the message opens and closes the binding code's number
BindingOpen == Len(call.customMessage) + 5

BindingClose == IndexFrom(MessageText, ")", BindingOpen + 1)

BindingNumber == SubSeq(MessageText, BindingOpen + 1, BindingClose - 1)

\* the first line: the fixed words, the description, a name, "(0x", digits, ")"
BindingSectionAt(text) ==
  LET n == Len(call.customMessage)
  IN  /\ Len(text) >= n + 8
      /\ text[1] = "Error occured when "
      /\ SubSeq(text, 2, n + 1) = call.customMessage
      /\ text[n + 2] = ". "
      /\ text[n + 3] = "Errorcode: "
      /\ text[n + 4] = result.props["errcode"].value[1]
      /\ text[n + 5] = " (0x"
      /\ IsHexDigits(SubSeq(text, n + 6, Len(text) - 2))
      /\ text[Len(text) - 1] = ")"
      /\ text[Len(text)] = "\n"

\* a vendor line: "Lowlevel error: ", a name, " (", digits, ")"
VendorSectionAt(text) ==
  /\ Len(text) >= 6
  /\ text[1] = "Lowlevel error: "
  /\ text[2] = result.props["lowlevelError"].value[1]
  /\ text[3] = " ("
  /\ IsHexDigits(SubSeq(text, 4, Len(text) - 2))
  /\ text[Len(text) - 1] = ")"
  /\ text[Len(text)] = "\n"

\* the vendor line of the message starts after the first line
VendorOpen == BindingClose + 4

VendorClose == IndexFrom(MessageText, ")", VendorOpen + 1)

VendorNumber == SubSeq(MessageText, VendorOpen + 1, VendorClose - 1)

(* ---------------- the claims ---------------- *)

\* C1: getErrorMessage called with the success code returns undefined, whatever
\* the operation description, the log text and the vendor code are; no error
\* object is built.
C1_SuccessIsUndefined ==
  (call.op = "getErrorMessage" /\ call.errorCode = JsSuccess) => result = Undefined

C1_Witness ==
  /\ call.op = "getErrorMessage"
  /\ call.errorCode = JsSuccess
  /\ call.logmessage # <<>>
  /\ call.lowlevelError # SUCCESS
  /\ result.type = "undefined"

\* C2: for every binding code other than success the result is an error object
\* carrying errno, errcode, erroperation, errmsg, lowlevelErrorNo, lowlevelError
\* and output; errno, erroperation, lowlevelErrorNo and output are the code, the
\* description, the vendor code and the log text passed in, also when the vendor
\* code is zero and the log text is empty.
C2_ErrorObjectFields ==
  IsErrorCall =>
    /\ result.type = "object"
    /\ { "errno", "errcode", "erroperation", "errmsg",
         "lowlevelErrorNo", "lowlevelError", "output" } \subseteq DOMAIN result.props
    /\ result.props["errno"] = [type |-> "number", value |-> call.errorCode]
    /\ result.props["erroperation"] = [type |-> "string", value |-> call.customMessage]
    /\ result.props["lowlevelErrorNo"] = [type |-> "number", value |-> call.lowlevelError]
    /\ result.props["output"] = [type |-> "string", value |-> call.logmessage]

C2_Witness ==
  /\ IsErrorCall
  /\ call.lowlevelError = 0
  /\ call.logmessage = <<>>
  /\ result.type = "object"
  /\ result.props["lowlevelErrorNo"].value = 0
  /\ result.props["output"].value = <<>>

\* C3: the message is the binding error section, then the vendor section, then
\* the log section; the vendor section is there exactly when the vendor code is
\* not zero and the log section exactly when the log text is not empty; with a
\* zero vendor code and an empty log text the message is the binding section alone.
C3_SectionOrder ==
  IsErrorCall =>
    \E i \in 0 .. Len(MessageText) : \E j \in i .. Len(MessageText) :
      LET binding == SubSeq(MessageText, 1, i)
          vendor == SubSeq(MessageText, i + 1, j)
          log == SubSeq(MessageText, j + 1, Len(MessageText))
      IN  /\ BindingSectionAt(binding)
          /\ IF call.lowlevelError # 0 THEN VendorSectionAt(vendor) ELSE vendor = <<>>
          /\ IF call.logmessage # <<>>
             THEN log = call.logmessage \o << "\n" >>
             ELSE log = <<>>

C3_Witness ==
  /\ IsErrorCall
  /\ call.lowlevelError # 0
  /\ call.logmessage # <<>>
  /\ Contains(MessageText, << "Lowlevel error: " >>)
  /\ Contains(MessageText, call.logmessage)

\* C4 as stated: the message contains the operation description, the binding
\* error name and the binding code's number in decimal and in hexadecimal.
C4_DecimalAndHex ==
  IsErrorCall =>
    /\ Contains(MessageText, call.customMessage)
    /\ Contains(MessageText, result.props["errcode"].value)
    /\ Contains(MessageText, IntToText(call.errorCode, 10))
    /\ Contains(MessageText, IntToText(call.errorCode, 16))

\* C4 as amended: the message contains the operation description, the binding
\* error name and the binding code's number once, in hexadecimal after "(0x";
\* there is no decimal rendering of the number.
C4_HexOnly ==
  IsErrorCall =>
    /\ Contains(MessageText, call.customMessage)
    /\ Contains(MessageText, result.props["errcode"].value)
    /\ MessageText[BindingOpen] = " (0x"
    /\ BindingClose > BindingOpen + 1
    /\ IsHexDigits(BindingNumber)
    /\ IntOfHex(BindingNumber) = call.errorCode
    /\ MessageText[BindingClose + 1] = "\n"

C4_Witness ==
  /\ IsErrorCall
  /\ call.errorCode = 10
  /\ BindingNumber = << "a" >>
  /\ ~ Contains(MessageText, << "1", "0" >>)

\* C5: a code that is no key of its table does not make getErrorMessage fail:
\* an error object is returned and the name shown for the code, in the message
\* and in errcode / lowlevelError, is "Unknown"; a code that is a key is shown
\* with the table's name for it.
C5_UnknownName ==
  IsErrorCall =>
    LET bindingName == IF call.errorCode \in JsErrCodes
                       THEN InitJsErrMap[call.errorCode] ELSE "Unknown"
        vendorName == IF call.lowlevelError \in DllErrCodes
                      THEN InitDllErrMap[call.lowlevelError] ELSE "Unknown"
    IN  /\ result.type = "object"
        /\ result.props["errcode"].value = << bindingName >>
        /\ result.props["lowlevelError"].value = << vendorName >>
        /\ MessageText[BindingOpen - 1] = bindingName
        /\ call.lowlevelError # 0 => MessageText[VendorOpen - 1] = vendorName

C5_Witness ==
  /\ IsErrorCall
  /\ call.errorCode \notin JsErrCodes
  /\ call.lowlevelError \notin DllErrCodes
  /\ result.props["errcode"].value = << "Unknown" >>
  /\ result.props["lowlevelError"].value = << "Unknown" >>

\* C6: getTypeErrorMessage(i, t) is "<Ordinal> argument must be a <t>", the
\* ordinal being First .. Seventh for i = 0 .. 6 and "Unknown" for every other
\* i, negative ones too; t is appended unchanged.
C6_TypeErrorSentence ==
  call.op = "getTypeErrorMessage" =>
    LET ordinals == << "First", "Second", "Third", "Fourth", "Fifth", "Sixth", "Seventh" >>
        ordinal == IF call.argumentNumber \in 0 .. 6
                   THEN ordinals[call.argumentNumber + 1] ELSE "Unknown"
    IN  result = [type |-> "string",
                  value |-> << ordinal, " argument must be a " >> \o call.message]

C6_Witness ==
  /\ call.op = "getTypeErrorMessage"
  /\ call.argumentNumber < 0
  /\ call.message # <<>>
  /\ result.value[1] = "Unknown"

\* C7: getStructErrorMessage(name, message) is exactly
\* "Property: <name> Message: <message>", empty strings included.
C7_StructErrorSentence ==
  call.op = "getStructErrorMessage" =>
    result = [type |-> "string",
              value |-> << "Property: " >> \o call.name \o << " Message: " >> \o call.message]

C7_Witness ==
  /\ call.op = "getStructErrorMessage"
  /\ call.name = <<>>
  /\ call.message # <<>>
  /\ result.value[1] = "Property: "

C9_FieldsAgreeWithMessage ==
  IsErrorCall =>
    /\ result.props["errmsg"] = result.props["message"]
    /\ << MessageText[BindingOpen - 1] >> = result.props["errcode"].value
    /\ call.lowlevelError # 0 =>
         /\ MessageText[VendorOpen - 2] = "Lowlevel error: "
         /\ << MessageText[VendorOpen - 1] >> = result.props["lowlevelError"].value
    /\ call.lowlevelError = 0 =>
         /\ result.props["lowlevelError"].value = << "SUCCESS" >>
         /\ ~ Contains(MessageText, << "Lowlevel error: " >>)

C9_Witness ==
  /\ IsErrorCall
  /\ call.lowlevelError = 0
  /\ call.logmessage # <<>>
  /\ result.props["lowlevelError"].value = << "SUCCESS" >>
  /\ result.props["errmsg"].value = MessageText

\* C10: the binding code's number is in base 16 after a literal "0x"; the
\* vendor code's number in the vendor section is in base 16 too, without "0x";
\* a negative code is shown as its unsigned value modulo 2 ^ 32, without a
\* minus sign.
C10_HexPersists ==
  IsErrorCall =>
    /\ MessageText[BindingOpen] = " (0x"
    /\ IsHexDigits(BindingNumber)
    /\ IntOfHex(BindingNumber) = call.errorCode
    /\ call.errorCode < 0 => Len(BindingNumber) = IntWidth \div 4
    /\ call.lowlevelError # 0 =>
         /\ MessageText[VendorOpen] = " ("
         /\ IsHexDigits(VendorNumber)
         /\ IntOfHex(VendorNumber) = call.lowlevelError
         /\ call.lowlevelError < 0 => Len(VendorNumber) = IntWidth \div 4

C10_Witness ==
  /\ IsErrorCall
  /\ call.errorCode < 0
  /\ call.lowlevelError = -255
  /\ BindingNumber = << "f", "f", "f", "f", "f", "f", "f", "f" >>
  /\ VendorNumber = << "f", "f", "f", "f", "f", "f", "0", "1" >>

====
